---- MODULE Spec2Model ----
(***************************************************************************)
(* keep_alive.py: a single-threaded control loop that asserts the Windows  *)
(* execution state, optionally nudges the mouse, sleeps, and releases the  *)
(* execution state from a signal handler and from the loop's finally.      *)
(*                                                                         *)
(* The main thread is modelled by its position pc; a running signal        *)
(* handler by hpc (the innermost on_exit frame; outer frames never resume  *)
(* because on_exit always raises).  CPython runs Python-level signal       *)
(* handlers on the main thread at call boundaries, so a handler may start  *)
(* before any step of the model and during the timed sleep.                *)
(***************************************************************************)
EXTENDS Integers, Sequences, FiniteSets

\* ---- bounds of the model ----
MaxCycles == 2
MaxSignals == 2
MaxInterval == 2
MaxPos == 1

\* args.interval is whatever int argparse accepted (type=int, no range check)
Intervals == (-1)..MaxInterval
Positions == 0..MaxPos
Signals == {"SIGINT", "SIGTERM"}

\* ---- Windows execution state flags, as sets of bits ----
ES_CONTINUOUS == {"ES_CONTINUOUS"}
ES_SYSTEM_REQUIRED == {"ES_SYSTEM_REQUIRED"}
ES_DISPLAY_REQUIRED == {"ES_DISPLAY_REQUIRED"}

\* argument of SetThreadExecutionState in prevent_sleep (bitwise or)
AwakeState == ES_CONTINUOUS \cup ES_SYSTEM_REQUIRED \cup ES_DISPLAY_REQUIRED
\* argument of SetThreadExecutionState in allow_sleep
DefaultState == ES_CONTINUOUS

VARIABLES
  args,        \* parsed command line: [mouse, interval]
  pc,          \* position of the main thread
  hpc,         \* position of the innermost running on_exit frame, or "none"
  installed,   \* signals whose handler is on_exit
  pending,     \* exception in flight through the finally clause
  status,      \* "running", "exited" (with exitCode) or "killed"
  exitCode,    \* process exit status, -1 while none
  es,          \* the thread's execution state held by the OS
  result,      \* local of prevent_sleep: 0 = the call failed
  cursor,      \* OS pointer position <<x, y>>
  cursor0,     \* the pointer position when the process started
  pt,          \* local of nudge_mouse: position read by GetCursorPos
  slept,       \* whole seconds elapsed in the current time.sleep(interval)
  out,         \* console lines printed so far
  \* history of the run
  asserts,     \* SetThreadExecutionState calls made by prevent_sleep
  releases,    \* allow_sleep calls
  releaseFails, \* allow_sleep calls whose SetThreadExecutionState failed
  nudges,      \* nudge_mouse calls
  nudgeFails,  \* nudge_mouse calls that raised inside
  setCursor,   \* SetCursorPos calls
  sleeps,      \* time.sleep(interval) calls that started sleeping
  cycles,      \* time.sleep(interval) calls that returned
  nsig,        \* signals delivered
  sigStage,    \* pc of the main thread when the first signal was delivered
  startFailed, \* the prevent_sleep call before the loop returned 0
  lastCall     \* last execution-state call made: "assert" or "release"

vars == <<args, pc, hpc, installed, pending, status, exitCode, es, result,
          cursor, cursor0, pt, slept, out, asserts, releases, releaseFails,
          nudges, nudgeFails, setCursor, sleeps, cycles, nsig, sigStage,
          startFailed, lastCall>>

hist == <<cursor0, asserts, releases, releaseFails, nudges, nudgeFails,
          setCursor, sleeps, cycles, nsig, sigStage, startFailed, lastCall>>

\* ---- positions ----
ReassertStage == {"loop_call", "loop_check", "loop_exit"}
NudgeStage == {"nudge_get", "nudge_move", "nudge_pause", "nudge_restore"}
SuspendStage == {"sleep_call", "sleeping"}
LoopStages == ReassertStage \cup NudgeStage \cup SuspendStage

\* the statements covered by try: ... finally: allow_sleep()
InTryNever(p) == FALSE
InTry(p) == p \in LoopStages

\* the statements covered by nudge_mouse's try
InNudgeTry(p) == p \in NudgeStage

\* except Exception: catches OSError/ValueError, not SystemExit
NudgeCatchesAll(e) == e # "none"
NudgeCatchesNone(e) == FALSE
NudgeCatches(e) == e \in {"OSError", "ValueError"}

\* if result == 0
FailedNever(r) == FALSE
Failed(r) == r = 0

\* if args.mouse
NudgeAlways(a) == TRUE
NudgeNever(a) == FALSE
NudgeEnabled(a) == a.mouse

\* first statement of the body of "while True"
LoopHeadSkipsReassert == "loop_check"
LoopHead == "loop_call"

\* what on_exit raises at its end: sys.exit(0)
on_exit_returns == "none"
on_exit_fails == "SystemExit1"
on_exit_raises == "SystemExit0"

\* exit status the interpreter gives an exception that leaves main()
ExitCode(e) == IF e = "SystemExit0" THEN 0 ELSE 1

Init ==
  /\ args \in [mouse : BOOLEAN, interval : Intervals]
  /\ pc = "install_int"
  /\ hpc = "none"
  /\ installed = {}
  /\ pending = "none"
  /\ status = "running"
  /\ exitCode = -1
  /\ es = DefaultState
  /\ result = 1
  /\ cursor \in Positions \X Positions
  /\ cursor0 = cursor
  /\ pt = <<0, 0>>
  /\ slept = 0
  /\ out = <<>>
  /\ asserts = 0 /\ releases = 0 /\ releaseFails = 0 /\ nudges = 0 /\ nudgeFails = 0
  /\ setCursor = 0 /\ sleeps = 0 /\ cycles = 0 /\ nsig = 0
  /\ sigStage = "none" /\ startFailed = FALSE /\ lastCall = "none"

\* the main thread executes only when no handler frame is on top of it
MainRuns == status = "running" /\ hpc = "none"

\* An exception e raised at the main thread's current position, after the
\* console holds o: caught by nudge_mouse's except, or routed through the
\* finally clause, or it leaves main() and ends the process.
Unwind(e, o) ==
  IF e = "none"
    THEN /\ out' = o
         /\ UNCHANGED <<pc, pending, status, exitCode>>
  ELSE IF InNudgeTry(pc) /\ NudgeCatches(e)
    THEN /\ out' = Append(o, "WARN")
         /\ pc' = "sleep_call"
         /\ UNCHANGED <<pending, status, exitCode>>
  ELSE IF InTry(pc)
    THEN /\ out' = o
         /\ pc' = "finally"
         /\ pending' = e
         /\ UNCHANGED <<status, exitCode>>
  ELSE /\ out' = o
       /\ pc' = "done"
       /\ pending' = e
       /\ status' = "exited"
       /\ exitCode' = ExitCode(e)

\* ---- startup ----
InstallInt ==
  /\ MainRuns /\ pc = "install_int"
  /\ installed' = installed \cup {"SIGINT"}
  /\ pc' = "install_term"
  /\ UNCHANGED <<args, hpc, pending, status, exitCode, es, result, cursor,
                 pt, slept, out, hist>>

InstallTermSkipped ==
  /\ MainRuns /\ pc = "install_term"
  /\ pc' = "start_call"
  /\ UNCHANGED <<args, hpc, installed, pending, status, exitCode, es, result,
                 cursor, pt, slept, out, hist>>

InstallTerm ==
  /\ MainRuns /\ pc = "install_term"
  /\ installed' = installed \cup {"SIGTERM"}
  /\ pc' = "start_call"
  /\ UNCHANGED <<args, hpc, pending, status, exitCode, es, result, cursor,
                 pt, slept, out, hist>>

\* prevent_sleep: the SetThreadExecutionState call; the OS accepts or rejects
PreventCall(next) ==
  /\ asserts' = asserts + 1
  /\ \E ok \in BOOLEAN :
       IF ok THEN /\ es' = AwakeState /\ result' = 1
             ELSE /\ es' = es /\ result' = 0
  /\ lastCall' = "assert"
  /\ pc' = next

StartCall ==
  /\ MainRuns /\ pc = "start_call"
  /\ PreventCall("start_check")
  /\ startFailed' = (result' = 0)
  /\ UNCHANGED <<args, hpc, installed, pending, status, exitCode, cursor, pt,
                 slept, out, releases, nudges, nudgeFails, setCursor, sleeps,
                 cycles, nsig, sigStage, cursor0,
                 releaseFails>>

\* prevent_sleep: if result == 0: print(...), then sys.exit(1)
StartCheck ==
  /\ MainRuns /\ pc = "start_check"
  /\ IF Failed(result)
       THEN /\ out' = Append(out, "ERROR") /\ pc' = "start_exit"
       ELSE /\ out' = out /\ pc' = "print_active"
  /\ UNCHANGED <<args, hpc, installed, pending, status, exitCode, es, result,
                 cursor, pt, slept, asserts, releases, nudges, nudgeFails,
                 setCursor, sleeps, cycles, nsig, sigStage, startFailed,
                 lastCall, cursor0,
                 releaseFails>>

StartExit ==
  /\ MainRuns /\ pc = "start_exit"
  /\ Unwind("SystemExit1", out)
  /\ UNCHANGED <<args, hpc, installed, es, result, cursor, pt, slept, hist>>

PrintActive ==
  /\ MainRuns /\ pc = "print_active"
  /\ out' = Append(out, "ACTIVE")
  /\ pc' = "print_mouse"
  /\ UNCHANGED <<args, hpc, installed, pending, status, exitCode, es, result,
                 cursor, pt, slept, hist>>

PrintMouse ==
  /\ MainRuns /\ pc = "print_mouse"
  /\ out' = IF args.mouse THEN Append(out, "MOUSE") ELSE out
  /\ pc' = LoopHead
  /\ UNCHANGED <<args, hpc, installed, pending, status, exitCode, es, result,
                 cursor, pt, slept, hist>>

\* ---- the loop (while True) ----
LoopCall ==
  /\ MainRuns /\ pc = "loop_call"
  /\ cycles < MaxCycles
  /\ PreventCall("loop_check")
  /\ UNCHANGED <<args, hpc, installed, pending, status, exitCode, cursor, pt,
                 slept, out, releases, nudges, nudgeFails, setCursor, sleeps,
                 cycles, nsig, sigStage, startFailed, cursor0,
                 releaseFails>>

\* prevent_sleep's result check, then "if args.mouse: nudge_mouse()"
LoopCheck ==
  /\ MainRuns /\ pc = "loop_check"
  /\ IF Failed(result)
       THEN /\ out' = Append(out, "ERROR") /\ pc' = "loop_exit"
            /\ nudges' = nudges
       ELSE IF NudgeEnabled(args)
         THEN /\ out' = out /\ pc' = "nudge_get" /\ nudges' = nudges + 1
         ELSE /\ out' = out /\ pc' = "sleep_call" /\ nudges' = nudges
  /\ UNCHANGED <<args, hpc, installed, pending, status, exitCode, es, result,
                 cursor, pt, slept, asserts, releases, nudgeFails, setCursor,
                 sleeps, cycles, nsig, sigStage, startFailed, lastCall, cursor0,
                 releaseFails>>

LoopExit ==
  /\ MainRuns /\ pc = "loop_exit"
  /\ Unwind("SystemExit1", out)
  /\ UNCHANGED <<args, hpc, installed, es, result, cursor, pt, slept, hist>>

\* ---- nudge_mouse ----
\* a call inside nudge_mouse's try raises
NudgeFail ==
  /\ MainRuns /\ pc \in {"nudge_get", "nudge_move", "nudge_restore"}
  /\ nudgeFails' = nudgeFails + 1
  /\ Unwind("OSError", out)
  /\ UNCHANGED <<args, hpc, installed, es, result, cursor, pt, slept, asserts,
                 releases, nudges, setCursor, sleeps, cycles, nsig, sigStage,
                 startFailed, lastCall, cursor0,
                 releaseFails>>

\* GetCursorPos(byref(pt))
NudgeGet ==
  /\ MainRuns /\ pc = "nudge_get"
  /\ pt' = cursor
  /\ pc' = "nudge_move"
  /\ UNCHANGED <<args, hpc, installed, pending, status, exitCode, es, result,
                 cursor, slept, out, hist>>

\* SetCursorPos(pt.x + 1, pt.y)
NudgeMove ==
  /\ MainRuns /\ pc = "nudge_move"
  /\ cursor' = <<pt[1] + 1, pt[2]>>
  /\ setCursor' = setCursor + 1
  /\ pc' = "nudge_pause"
  /\ UNCHANGED <<args, hpc, installed, pending, status, exitCode, es, result,
                 pt, slept, out, asserts, releases, nudges, nudgeFails, sleeps,
                 cycles, nsig, sigStage, startFailed, lastCall, cursor0,
                 releaseFails>>

\* time.sleep(0.05)
NudgePause ==
  /\ MainRuns /\ pc = "nudge_pause"
  /\ pc' = "nudge_restore"
  /\ UNCHANGED <<args, hpc, installed, pending, status, exitCode, es, result,
                 cursor, pt, slept, out, hist>>

\* SetCursorPos(pt.x, pt.y), then nudge_mouse returns to the loop
NudgeRestore ==
  /\ MainRuns /\ pc = "nudge_restore"
  /\ cursor' = pt
  /\ setCursor' = setCursor + 1
  /\ pc' = "sleep_call"
  /\ UNCHANGED <<args, hpc, installed, pending, status, exitCode, es, result,
                 pt, slept, out, asserts, releases, nudges, nudgeFails, sleeps,
                 cycles, nsig, sigStage, startFailed, lastCall, cursor0,
                 releaseFails>>

\* ---- time.sleep(args.interval) ----
\* time.sleep rejects a negative length with ValueError
SleepCall ==
  /\ MainRuns /\ pc = "sleep_call"
  /\ IF args.interval < 0
       THEN /\ Unwind("ValueError", out)
            /\ UNCHANGED <<slept, sleeps>>
       ELSE /\ pc' = "sleeping"
            /\ slept' = 0
            /\ sleeps' = sleeps + 1
            /\ UNCHANGED <<out, pending, status, exitCode>>
  /\ UNCHANGED <<args, hpc, installed, es, result, cursor, pt, asserts,
                 releases, nudges, nudgeFails, setCursor, cycles, nsig,
                 sigStage, startFailed, lastCall, cursor0,
                 releaseFails>>

\* one second of the suspension passes
Tick ==
  /\ MainRuns /\ pc = "sleeping"
  /\ slept < args.interval
  /\ slept' = slept + 1
  /\ UNCHANGED <<args, pc, hpc, installed, pending, status, exitCode, es,
                 result, cursor, pt, out, hist>>

\* time.sleep(n) returns once n seconds have passed
SleepOverEarly(s, n) == s >= n - 1
SleepOver(s, n) == s >= n

\* the suspension has lasted args.interval seconds; back to the loop head
SleepReturn ==
  /\ MainRuns /\ pc = "sleeping"
  /\ SleepOver(slept, args.interval)
  /\ cycles' = cycles + 1
  /\ pc' = LoopHead
  /\ UNCHANGED <<args, hpc, installed, pending, status, exitCode, es, result,
                 cursor, pt, slept, out, asserts, releases, nudges, nudgeFails,
                 setCursor, sleeps, nsig, sigStage, startFailed, lastCall, cursor0,
                 releaseFails>>

\* ---- allow_sleep: SetThreadExecutionState(ES_CONTINUOUS), result ignored ----
\* the state the OS holds after the call: the requested one if it accepted
ReleaseRestoresPrevious(cur, ok) ==
  IF ok THEN (IF cur = DefaultState THEN AwakeState ELSE DefaultState) ELSE cur
ReleaseEffect(cur, ok) == IF ok THEN DefaultState ELSE cur

AllowSkipped == UNCHANGED <<releases, releaseFails, es, lastCall>>
AllowCall ==
  /\ releases' = releases + 1
  /\ \E ok \in BOOLEAN :
       /\ es' = ReleaseEffect(es, ok)
       /\ releaseFails' = IF ok THEN releaseFails ELSE releaseFails + 1
  /\ lastCall' = "release"

\* finally: allow_sleep()
Finally ==
  /\ MainRuns /\ pc = "finally"
  /\ AllowCall
  /\ pc' = "reraise"
  /\ UNCHANGED <<args, hpc, installed, pending, status, exitCode, result,
                 cursor, pt, slept, out, asserts, nudges, nudgeFails,
                 setCursor, sleeps, cycles, nsig, sigStage, startFailed, cursor0>>

\* end of the finally clause: the exception in flight leaves main()
Reraise ==
  /\ MainRuns /\ pc = "reraise"
  /\ Unwind(pending, out)
  /\ UNCHANGED <<args, hpc, installed, es, result, cursor, pt, slept, hist>>

\* ---- signals ----
\* The OS delivers sig.  With on_exit installed a new handler frame starts on
\* top of whatever the process was doing; otherwise the default disposition
\* ends the process.
Deliver ==
  /\ status = "running"
  /\ nsig < MaxSignals
  /\ \E sig \in Signals :
       IF sig \in installed
         THEN /\ hpc' = "h_print"
              /\ UNCHANGED <<pc, status>>
         ELSE /\ status' = "killed"
              /\ pc' = "done"
              /\ hpc' = "none"
  /\ nsig' = nsig + 1
  /\ sigStage' = IF nsig = 0 THEN pc ELSE sigStage
  /\ UNCHANGED <<args, installed, pending, exitCode, es, result, cursor, pt,
                 slept, out, asserts, releases, nudges, nudgeFails, setCursor,
                 sleeps, cycles, startFailed, lastCall, cursor0,
                 releaseFails>>

\* on_exit: print("[INFO] Restoring normal sleep settings...")
HandlerPrint ==
  /\ status = "running" /\ hpc = "h_print"
  /\ out' = Append(out, "RESTORE")
  /\ hpc' = "h_release"
  /\ UNCHANGED <<args, pc, installed, pending, status, exitCode, es, result,
                 cursor, pt, slept, hist>>

\* on_exit: allow_sleep()
HandlerRelease ==
  /\ status = "running" /\ hpc = "h_release"
  /\ AllowCall
  /\ hpc' = "h_exit"
  /\ UNCHANGED <<args, pc, installed, pending, status, exitCode, result,
                 cursor, pt, slept, out, asserts, nudges, nudgeFails,
                 setCursor, sleeps, cycles, nsig, sigStage, startFailed, cursor0>>

\* on_exit: sys.exit(0) unwinds every handler frame into the main thread
HandlerExit ==
  /\ status = "running" /\ hpc = "h_exit"
  /\ hpc' = "none"
  /\ Unwind(on_exit_raises, out)
  /\ UNCHANGED <<args, installed, es, result, cursor, pt, slept, hist>>

\* the steps the interpreter takes on its own
Step ==
  \/ InstallInt \/ InstallTerm
  \/ StartCall \/ StartCheck \/ StartExit
  \/ PrintActive \/ PrintMouse
  \/ LoopCall \/ LoopCheck \/ LoopExit
  \/ NudgeGet \/ NudgeMove \/ NudgePause \/ NudgeRestore \/ NudgeFail
  \/ SleepCall \/ Tick \/ SleepReturn
  \/ Finally \/ Reraise
  \/ HandlerPrint \/ HandlerRelease \/ HandlerExit

Next == Step \/ Deliver

Spec == Init /\ [][Next]_vars

\* the interpreter keeps executing: no step stays enabled forever untaken
LiveSpec == Spec /\ WF_vars(Step)

TypeOK ==
  /\ pc \in {"install_int", "install_term", "start_call", "start_check",
             "start_exit", "print_active", "print_mouse", "finally",
             "reraise", "done"} \cup LoopStages
  /\ hpc \in {"none", "h_print", "h_release", "h_exit"}
  /\ status \in {"running", "exited", "killed"}
  /\ exitCode \in {-1, 0, 1}
  /\ es \in {AwakeState, DefaultState}

\* ---- properties ----
Printed(line) == \E i \in 1..Len(out) : out[i] = line

\* the process was never in the running state
NeverRan ==
  /\ asserts = 1 /\ nudges = 0 /\ sleeps = 0 /\ cycles = 0 /\ setCursor = 0
  /\ pc \in {"start_check", "start_exit", "done"}
  /\ ~Printed("ACTIVE")

\* C1 (as stated): an execution ended by a signal delivered in a loop stage
\* has called allow_sleep exactly once.
C1_ReleasedExactlyOnce ==
  (status = "exited" /\ sigStage \in LoopStages) => releases = 1

\* C1 (amended): an execution ended by a signal delivered in a loop stage has
\* called allow_sleep at least twice, once in on_exit and once in the finally
\* clause, and at most once more per further signal; with a single signal it
\* is exactly twice, whichever stage the signal hit.
C1_ReleasedByHandlerAndFinally ==
  (status = "exited" /\ sigStage \in LoopStages) =>
     /\ releases >= 2
     /\ releases <= nsig + 1
     /\ exitCode = 0

C1_Witness ==
  /\ status = "exited" /\ sigStage = "sleeping" /\ nsig = 1 /\ releases = 2

\* C2 (as stated): once the first prevent_sleep call was made, the process
\* never exits without having called allow_sleep.
C2_ReleasedOnEveryExit ==
  (status = "exited" /\ asserts >= 1) => releases >= 1

\* C2 (amended): once the first prevent_sleep call was made, the process
\* exits without having called allow_sleep only when that first call failed
\* and no signal was handled; it then exits 1 and holds no assertion.
C2_ReleasedUnlessStartFailed ==
  (status = "exited" /\ asserts >= 1) =>
     \/ releases >= 1
     \/ /\ startFailed /\ nsig = 0 /\ asserts = 1
        /\ exitCode = 1 /\ es = DefaultState

C2_Witness ==
  /\ status = "exited" /\ nsig = 0 /\ ~startFailed
  /\ pending = "SystemExit1" /\ releases = 1

\* C3: a signal delivered while the loop is in one of its stages leads to the
\* process having exited with allow_sleep called.
C3_SignalLeadsToStopped ==
  (sigStage \in LoopStages) ~> (status = "exited" /\ releases >= 1)

C3_Witness ==
  /\ status = "exited" /\ sigStage \in NudgeStage /\ releases >= 1

\* C4 (as stated): if the first prevent_sleep call failed the process never
\* ran and its exit status is not 0.
C4_StartFailureExitsNonZero ==
  startFailed => (NeverRan /\ (status = "exited" => exitCode # 0))

\* C4 (amended): if the first prevent_sleep call failed the process never
\* ran; it exits 1, unless a signal is handled before sys.exit(1) is reached,
\* in which case on_exit ends it with status 0.
C4_StartFailureNeverRuns ==
  startFailed =>
     /\ NeverRan
     /\ status = "exited" =>
          IF nsig = 0 THEN exitCode = 1 /\ Printed("ERROR")
          ELSE exitCode = 0 /\ Printed("RESTORE")

C4_Witness ==
  /\ startFailed /\ status = "exited" /\ exitCode = 1 /\ nsig = 0

\* C5: a process that handled a signal exits 0, and an exit status other
\* than 0 only follows a failed prevent_sleep call.
C5_ExitCodes ==
  status = "exited" =>
     /\ nsig >= 1 => exitCode = 0
     /\ exitCode # 0 => Printed("ERROR")

\* C6: without --mouse nudge_mouse is never called and the pointer is never
\* written.
C6_NoMouseNoNudge ==
  ~args.mouse =>
     /\ nudges = 0 /\ setCursor = 0 /\ nudgeFails = 0
     /\ pc \notin NudgeStage
     /\ cursor = cursor0

C6_Witness ==
  /\ ~args.mouse /\ cycles >= 2 /\ pc = "loop_call"

\* C7: with --mouse the number of nudge_mouse calls equals the number of
\* completed cycles at the head of a cycle and exceeds it by one from the
\* call until the cycle's sleep returns; failed nudges are among the calls.
C7_OneNudgePerCycle ==
  args.mouse =>
     /\ pc \in ReassertStage => nudges = cycles
     /\ pc \in NudgeStage \cup SuspendStage => nudges = cycles + 1
     /\ cycles <= nudges /\ nudges <= cycles + 1
     /\ nudgeFails <= nudges

C7_Witness ==
  /\ args.mouse /\ cycles = 2 /\ nudges = 2 /\ nudgeFails = 1

\* C8: with --mouse, when the process has ended and no nudge failed, the
\* pointer is where it was before the nudges.
C8_PointerRestoredAtExit ==
  (args.mouse /\ status = "exited" /\ nudgeFails = 0) => cursor = cursor0

\* C9: a failing nudge prints a warning and goes on to the cycle's
\* time.sleep with the process running and no exception in flight, and
\* every later cycle whose reassertion succeeds calls nudge_mouse again.
C9_NudgeFailureContinues ==
  [][/\ nudgeFails' > nudgeFails =>
          /\ out' = Append(out, "WARN")
          /\ pc' = "sleep_call"
          /\ status' = "running" /\ pending' = "none"
          /\ nudges' = nudges
     /\ (nudgeFails >= 1 /\ pc = "sleeping" /\ pc' = "loop_call") =>
          cycles' = cycles + 1
     /\ (nudgeFails >= 1 /\ pc = "loop_check" /\ hpc = "none" /\ hpc' = "none"
           /\ pc' # pc /\ result # 0) =>
          (pc' = "nudge_get" /\ nudges' = nudges + 1)]_vars

C9_Witness ==
  /\ nudgeFails = 2 /\ nudges = 2 /\ cycles = 2 /\ status = "running"

\* C10: once a signal was delivered during the timed sleep, the process
\* makes no further prevent_sleep call, nudge or sleep, and the interrupted
\* sleep does not go on.
C10_SignalCutsSleepShort ==
  [][sigStage = "sleeping" =>
       /\ asserts' = asserts /\ nudges' = nudges /\ setCursor' = setCursor
       /\ sleeps' = sleeps /\ slept' = slept /\ cycles' = cycles
       /\ pc' \in {"sleeping", "finally", "reraise", "done"}]_vars

C10_Witness ==
  /\ sigStage = "sleeping" /\ status = "exited"
  /\ slept < args.interval /\ releases >= 1

\* C11 (as stated): a release call that fails during a signal-triggered
\* shutdown is reported on the console and the process still exits 0.
C11_ReleaseFailureLogged ==
  (status = "exited" /\ nsig >= 1 /\ releaseFails >= 1) =>
     /\ exitCode = 0
     /\ \E i \in 1..Len(out) : out[i] \notin {"ERROR", "ACTIVE", "MOUSE",
                                             "WARN", "RESTORE"}

\* C11 (amended): a release call that fails is ignored: the failing call
\* prints nothing, raises nothing and leaves the process running, and a
\* signal-triggered shutdown in which it happened still exits 0.
C11_ReleaseFailureIgnored ==
  /\ []((status = "exited" /\ nsig >= 1 /\ releaseFails >= 1) => exitCode = 0)
  /\ [][releaseFails' > releaseFails =>
          /\ out' = out /\ pending' = pending
          /\ status' = "running" /\ exitCode' = -1
          /\ releases' = releases + 1]_vars

C11_Witness ==
  /\ status = "exited" /\ nsig = 1 /\ releaseFails = 2 /\ exitCode = 0
  /\ es = AwakeState

\* C12: from the first prevent_sleep call on, the interval the loop uses is
\* at least 1.
C12_IntervalPositive ==
  asserts >= 1 => args.interval >= 1

\* C13: for an interval N >= 1, a time.sleep(N) that returns has lasted
\* exactly N seconds, in every cycle, and none lasts longer.
C13_SleepLastsInterval ==
  /\ [](args.interval >= 1 => slept <= args.interval)
  /\ [][(args.interval >= 1 /\ cycles' = cycles + 1) =>
          (pc = "sleeping" /\ slept = args.interval /\ slept' = slept)]_vars

C13_Witness ==
  /\ args.interval = 2 /\ cycles = 2 /\ sleeps = 2 /\ slept = 2

\* C14: an allow_sleep call made when a release has already put the OS in
\* the default state, from on_exit or from the finally clause, leaves the
\* default state in place and raises nothing.
C14_ReleaseIdempotent ==
  [][(releases' = releases + 1 /\ releases >= 1 /\ es = DefaultState) =>
       /\ es' = DefaultState
       /\ pending' = pending /\ status' = status /\ out' = out]_vars

C14_Witness ==
  /\ status = "exited" /\ nsig = 1 /\ sigStage \in LoopStages
  /\ releases = 2 /\ releaseFails = 0 /\ es = DefaultState

\* C15: each cycle calls prevent_sleep once, then nudge_mouse if enabled,
\* then sleeps: at the loop head one prevent_sleep call (besides the one at
\* startup) was made per completed cycle, from the reassertion on one more,
\* and a sleep or a nudge is started only after that cycle's reassertion.
C15_CycleOrder ==
  /\ pc = "loop_call" => (asserts = cycles + 1 /\ sleeps = cycles)
  /\ pc \in {"loop_check", "loop_exit", "sleep_call"} \cup NudgeStage =>
       (asserts = cycles + 2 /\ sleeps = cycles)
  /\ pc = "sleeping" => (asserts = cycles + 2 /\ sleeps = cycles + 1)
  /\ sleeps < asserts \/ sleeps = 0
  /\ nudges < asserts \/ nudges = 0
  /\ (args.mouse /\ args.interval >= 0) => sleeps <= nudges

C15_Witness ==
  /\ args.mouse /\ pc = "sleeping" /\ cycles = 1 /\ asserts = 3
  /\ nudges = 2 /\ sleeps = 2

\* C16 (as stated): after a failed prevent_sleep call, at startup or in the
\* loop, nothing more is asserted, nudged or slept, and the exit status is
\* not 0.
C16_AssertFailureExitsNonZero ==
  /\ []((result = 0 /\ status = "exited") => exitCode # 0)
  /\ [][result = 0 =>
          /\ asserts' = asserts /\ nudges' = nudges /\ sleeps' = sleeps
          /\ slept' = slept /\ setCursor' = setCursor]_vars

\* C16 (amended): after a failed prevent_sleep call nothing more is
\* asserted, nudged or slept; the exit status is 1, unless a signal is
\* handled before the process has exited, in which case it is 0.
C16_AssertFailureFatal ==
  /\ []((result = 0 /\ status = "exited") =>
          IF nsig = 0 THEN exitCode = 1 ELSE exitCode = 0)
  /\ [][result = 0 =>
          /\ asserts' = asserts /\ nudges' = nudges /\ sleeps' = sleeps
          /\ slept' = slept /\ setCursor' = setCursor /\ cycles' = cycles
          /\ result' = 0]_vars

C16_Witness ==
  /\ result = 0 /\ ~startFailed /\ status = "exited" /\ exitCode = 1
  /\ cycles = 1 /\ releases = 1

\* C17 (as stated): with a valid interval, the path that calls allow_sleep
\* and ends the process is entered only after a signal was delivered.
C17_StopOnlyBySignal ==
  (args.interval >= 1 /\ (releases >= 1 \/ pc \in {"finally", "reraise"})) =>
     nsig >= 1

\* C17 (amended): the path that calls allow_sleep and ends the process is
\* entered only by a handled signal, by a failed reassertion in the loop, or
\* by time.sleep rejecting a negative interval; the loop has no normal exit.
C17_StopBySignalOrFatalError ==
  (releases >= 1 \/ pc \in {"finally", "reraise"}) =>
     \/ nsig >= 1
     \/ pending = "SystemExit1" /\ result = 0 /\ ~startFailed
     \/ pending = "ValueError" /\ args.interval < 0

C17_Witness ==
  /\ pc = "reraise" /\ nsig = 0 /\ pending = "SystemExit1" /\ releases = 1
  /\ args.interval >= 1

\* C18: no prevent_sleep call is made after an allow_sleep call; a process
\* whose first assertion succeeded exits with allow_sleep as its last
\* execution-state call, and in the default state if no release failed.
C18_NoAssertAfterRelease ==
  /\ []((status = "exited" /\ asserts >= 1 /\ ~startFailed) =>
          /\ lastCall = "release"
          /\ releaseFails = 0 => es = DefaultState)
  /\ [][releases >= 1 => asserts' = asserts]_vars

C18_Witness ==
  /\ status = "exited" /\ asserts = 3 /\ releases = 2 /\ nsig = 1
  /\ lastCall = "release" /\ es = DefaultState

\* C19: whenever a prevent_sleep call has been made or the assertion is
\* held, on_exit is installed for both signals, and a process ended by a
\* signal's default disposition never made a prevent_sleep call.
C19_HandlersBeforeAssert ==
  /\ (asserts >= 1 \/ es = AwakeState \/ pc \notin {"install_int",
        "install_term", "done"}) => installed = Signals
  /\ status = "killed" => (asserts = 0 /\ es = DefaultState)

C19_Witness ==
  /\ es = AwakeState /\ installed = Signals /\ hpc = "h_release"
  /\ pc = "start_check"

====
